---- MODULE Spec2Model ----
(***************************************************************************)
(* The live-polling dashboard component (function App): its React state,   *)
(* the polling effect with its interval timer, the two fetch operations    *)
(* and the requests that are in flight on the network.                     *)
(*                                                                         *)
(* A handler runs to completion on the single event thread: the state      *)
(* updates it makes, the render that follows and the polling effect that   *)
(* the render commits are one step.  A fetch is two steps: the request is  *)
(* issued (it joins inflight) and, at any later time and in any order, its *)
(* outcome is processed by the continuation of fetchMetrics/fetchHealth.   *)
(*                                                                         *)
(* Strings the code inspects (the API key) are sequences of characters.    *)
(* An optional value (null in the code) is a sequence of length 0 or 1.    *)
(* The display-only fields (sample time, latencies, darkMode) are left out. *)
(***************************************************************************)
EXTENDS Integers, Sequences, FiniteSets, Bags, TLC

VARIABLES
    apiKey,      \* useState(""): the text of the key input
    connected,   \* useState(false)
    metrics,     \* useState(null): None or Some(data)
    history,     \* useState([]): sequence of samples, oldest first
    health,      \* useState(null): None or Some([status |-> s])
    error,       \* useState(null): None or Some(message)
    timer,       \* number of intervals created by the polling effect and not cleared
    pollKey,     \* the apiKey captured by the fetchMetrics closure the effect uses
    inflight,    \* bag of requests issued and not yet processed
    lastEvent,   \* the handler that made the last step, with the outcome it processed
    lastSent,    \* bag of the requests issued by the last step
    served,      \* number of successful metrics bodies processed so far
    sessLog      \* samples appended since the last valid submit, in processing order

vars == <<apiKey, connected, metrics, history, health, error, timer, pollKey,
          inflight, lastEvent, lastSent, served, sessLog>>

-----------------------------------------------------------------------------
(* Bounds of the model *)

\* successful metrics responses processed in one run of Spec
MaxOk == 2
\* successful metrics responses processed in one run of SpecDeep
MaxOkDeep == 25
\* requests of one kind that may be in flight together
MaxInFlight == 2

-----------------------------------------------------------------------------
(* Values *)

None == <<>>
Some(x) == <<x>>

\* slice(-19): how many of the previous samples an append keeps
HistoryKeep == 19

\* the keys a user may type into the input
KeyInputs == { <<>>, <<" ">>, <<"a">>, <<" ", "b", " ">> }

MsgEnterKey == "Please enter API key"
MsgInvalidKey == "Invalid API key"
MsgUnreachable == "Server not reachable"

\* String.prototype.trim strips white space from both ends
IsWhitespace(c) == c \in {" ", "\t", "\n"}

RECURSIVE TrimStart(_)
TrimStart(s) ==
    IF s # <<>> /\ IsWhitespace(Head(s)) THEN TrimStart(Tail(s)) ELSE s

RECURSIVE TrimEnd(_)
TrimEnd(s) ==
    IF s # <<>> /\ IsWhitespace(s[Len(s)])
    THEN TrimEnd(SubSeq(s, 1, Len(s) - 1))
    ELSE s

\* a check of the key as typed, without trim()
NoTrim(s) == s

Trim(s) == TrimEnd(TrimStart(s))

\* slice(0, k): the first k elements instead of the last
SliceFirst(s, k) ==
    IF Len(s) <= k THEN s ELSE SubSeq(s, 1, k)

\* Array.prototype.slice(-k) for k > 0: the last k elements, all when fewer
SliceLast(s, k) ==
    IF Len(s) <= k THEN s ELSE SubSeq(s, Len(s) - k + 1, Len(s))

\* the body of the n-th successful /metrics response: the gateway's counters
MetricsBody(n) ==
    [total_requests |-> n, rate_limited_requests |-> n \div 3]

\* the sample fetchMetrics derives from a body
Sample(data) ==
    [requests |-> data.total_requests, rateLimited |-> data.rate_limited_requests]

\* an append that keeps one sample more: slice(-20)
AppendSampleKeepsCap(prev, data) ==
    Append(SliceLast(prev, HistoryKeep + 1), Sample(data))

\* setHistory((prev) => [...prev.slice(-19), sample])
AppendSample(prev, data) == Append(SliceLast(prev, HistoryKeep), Sample(data))

-----------------------------------------------------------------------------
(* Requests and outcomes *)

\* cur: the request was issued in the session begun by the latest valid submit
MetricsRequest(key) == [kind |-> "metrics", key |-> key, cur |-> TRUE]
HealthRequest == [kind |-> "health", key |-> <<>>, cur |-> TRUE]

\* an outcome of a fetch: whether fetch() resolved, res.ok, whether res.json()
\* parsed, and the detail and status fields of the parsed body ("" when absent)
Outcome(resolved, ok, parses, detail, status) ==
    [resolved |-> resolved, ok |-> ok, parses |-> parses,
     detail |-> detail, status |-> status]

NoOutcome == Outcome(FALSE, FALSE, FALSE, "", "")

MetricsOutcomes ==
    { Outcome(FALSE, FALSE, FALSE, "", ""),        \* fetch rejected
      Outcome(TRUE, TRUE, TRUE, "", ""),           \* 200 with a metrics body
      Outcome(TRUE, TRUE, FALSE, "", ""),          \* 200, body is not JSON
      Outcome(TRUE, FALSE, TRUE, "bad key", ""),   \* 401 {detail: "bad key"}
      Outcome(TRUE, FALSE, TRUE, "", ""),          \* 403 {}
      Outcome(TRUE, FALSE, FALSE, "", "") }        \* 502, body is not JSON

HealthOutcomes ==
    { Outcome(FALSE, FALSE, FALSE, "", ""),        \* fetch rejected
      Outcome(TRUE, TRUE, TRUE, "", "healthy"),    \* 200 {status: "healthy"}
      Outcome(TRUE, TRUE, TRUE, "", "degraded"),   \* 200 {status: "degraded"}
      Outcome(TRUE, FALSE, TRUE, "", ""),          \* 500 {}
      Outcome(TRUE, FALSE, FALSE, "", "") }        \* 502, body is not JSON

\* was: the value of connected the handler ran with
Event(op, outcome) == [op |-> op, outcome |-> outcome, was |-> connected]

NumInFlight(kind) ==
    LET S == {r \in BagToSet(inflight) : r.kind = kind}
        RECURSIVE Sum(_)
        Sum(T) == IF T = {} THEN 0
                  ELSE LET r == CHOOSE x \in T : TRUE
                       IN  CopiesIn(r, inflight) + Sum(T \ {r})
    IN  Sum(S)

\* the requests of earlier sessions: every request in flight loses cur
Outdated(b) ==
    LET old(r) == [r EXCEPT !.cur = FALSE]
        D == {old(r) : r \in BagToSet(b)}
    IN  [q \in D |-> CopiesIn(q, b) + CopiesIn([q EXCEPT !.cur = TRUE], b)]

\* a poll whose fetchMetrics reads the apiKey of the first render
DualFetchMountKey(key) == SetToBag({MetricsRequest(<<>>), HealthRequest})

\* fetchMetrics(); fetchHealth(): the two requests one poll issues
DualFetch(key) == SetToBag({MetricsRequest(key), HealthRequest})

CanIssue == NumInFlight("metrics") < MaxInFlight /\ NumInFlight("health") < MaxInFlight

-----------------------------------------------------------------------------
Init ==
    /\ apiKey = <<>>
    /\ connected = FALSE
    /\ metrics = None
    /\ history = <<>>
    /\ health = None
    /\ error = None
    /\ timer = 0
    /\ pollKey = <<>>
    /\ inflight = EmptyBag
    /\ lastEvent = [op |-> "init", outcome |-> NoOutcome, was |-> FALSE]
    /\ lastSent = EmptyBag
    /\ served = 0
    /\ sessLog = <<>>

-----------------------------------------------------------------------------
(* fetchMetrics and fetchHealth: what the continuation does with an outcome *)

\* the React state a continuation of fetchMetrics may set
AppState == [connected |-> connected, metrics |-> metrics,
             history |-> history, error |-> error]

\* a catch that also drops the snapshot
MetricsCatchClearsSnapshot(st) ==
    [st EXCEPT !.error = Some(MsgUnreachable), !.metrics = None]

\* a catch that also calls setConnected(false)
MetricsCatchDisconnects(st) ==
    [st EXCEPT !.error = Some(MsgUnreachable), !.connected = FALSE]

\* catch (err): setError("Server not reachable")
MetricsCatch(st) == [st EXCEPT !.error = Some(MsgUnreachable)]

\* a non-ok branch that omits setConnected(false)
MetricsNotOkKeepsPolling(st, o) ==
    [st EXCEPT !.error = Some(IF o.detail # "" THEN o.detail ELSE MsgInvalidKey)]

\* if (!res.ok): setError(err.detail || "Invalid API key"); setConnected(false)
MetricsNotOk(st, o) ==
    [st EXCEPT !.error = Some(IF o.detail # "" THEN o.detail ELSE MsgInvalidKey),
               !.connected = FALSE]

\* a success path that omits setError(null)
MetricsSuccessKeepsError(st, data) ==
    [st EXCEPT !.metrics = Some(data),
               !.history = AppendSample(@, data)]

\* setMetrics(data); setError(null); setHistory(...)
MetricsSuccess(st, data) ==
    [st EXCEPT !.metrics = Some(data),
               !.error = None,
               !.history = AppendSample(@, data)]

\* the body of fetchMetrics after the fetch settled with outcome o
FetchMetricsDone(st, o, data) ==
    IF ~o.resolved THEN MetricsCatch(st)
    ELSE IF ~o.ok
         THEN IF ~o.parses THEN MetricsCatch(st) ELSE MetricsNotOk(st, o)
         ELSE IF ~o.parses THEN MetricsCatch(st) ELSE MetricsSuccess(st, data)

\* whether outcome o takes the success path of fetchMetrics
IsSuccess(o) == o.resolved /\ o.ok /\ o.parses

\* a fetchHealth whose catch does nothing
FetchHealthEmptyCatch(o) ==
    IF o.resolved /\ o.parses
    THEN Some([status |-> o.status])
    ELSE health

\* the body of fetchHealth after the fetch settled: res.ok is not looked at
FetchHealthDone(o) ==
    IF o.resolved /\ o.parses
    THEN Some([status |-> o.status])
    ELSE Some([status |-> "down"])

-----------------------------------------------------------------------------
(* The polling effect, useEffect(..., [connected]) *)

\* an effect that returns no cleanup: the interval outlives the session
PollingEffectNoCleanup(was, now, key) ==
    IF now /\ ~was
    THEN [timer |-> timer + 1, pollKey |-> key, sent |-> DualFetch(key)]
    ELSE [timer |-> timer, pollKey |-> pollKey, sent |-> EmptyBag]

\* an effect without the if (connected) test: every change of connected polls
\* and creates an interval, after the cleanup of the previous one
PollingEffectUnguarded(was, now, key) ==
    IF now /\ ~was
    THEN [timer |-> timer + 1, pollKey |-> key, sent |-> DualFetch(key)]
    ELSE IF was /\ ~now
         THEN [timer |-> timer - 1 + 1, pollKey |-> key, sent |-> DualFetch(key)]
         ELSE [timer |-> timer, pollKey |-> pollKey, sent |-> EmptyBag]

\* what committing a render does when connected went from was to now: on
\* false -> true it polls once and creates the interval, with the fetchMetrics
\* of that render (its apiKey is key); on true -> false the cleanup clears it
PollingEffect(was, now, key) ==
    IF now /\ ~was
    THEN [timer |-> timer + 1, pollKey |-> key, sent |-> DualFetch(key)]
    ELSE IF was /\ ~now
         THEN [timer |-> timer - 1, pollKey |-> pollKey, sent |-> EmptyBag]
         ELSE [timer |-> timer, pollKey |-> pollKey, sent |-> EmptyBag]

\* render branches that show Login whenever an error is set
ViewErrorFirst(conn, snapshot) ==
    IF ~conn \/ error # None THEN "Login"
    ELSE IF snapshot = None THEN "Loading"
    ELSE "Dashboard"

\* the render branches: Login, Loading or Dashboard
View(conn, snapshot) ==
    IF ~conn THEN "Login"
    ELSE IF snapshot = None THEN "Loading"
    ELSE "Dashboard"

\* an indicator written as health?.status !== "down"
HealthIndicatorUnlessDown(h) ==
    IF h # None /\ h[1].status = "down" THEN "Down" ELSE "Healthy"

\* the health indicator of the dashboard: health?.status === "healthy"
HealthIndicator(h) ==
    IF h # None /\ h[1].status = "healthy" THEN "Healthy" ELSE "Down"

-----------------------------------------------------------------------------
(* Handlers *)

\* onChange of the key input (Login view)
OnChange(k) ==
    /\ ~connected
    /\ apiKey' = k
    /\ lastEvent' = Event("onChange", NoOutcome)
    /\ lastSent' = EmptyBag
    /\ UNCHANGED <<connected, metrics, history, health, error, timer, pollKey,
                   inflight, served, sessLog>>

\* onClick of Connect with a blank key: setError(...); return
ConnectBlank ==
    /\ error' = Some(MsgEnterKey)
    /\ lastSent' = EmptyBag
    /\ UNCHANGED <<apiKey, connected, metrics, history, health, timer, pollKey,
                   inflight, served, sessLog>>

\* a Connect that omits setHistory([])
ConnectValidKeepsHistory ==
    LET eff == PollingEffect(connected, TRUE, apiKey)
    IN  /\ CanIssue
        /\ metrics' = None
        /\ connected' = TRUE
        /\ timer' = eff.timer
        /\ pollKey' = eff.pollKey
        /\ lastSent' = eff.sent
        /\ inflight' = Outdated(inflight) (+) eff.sent
        /\ sessLog' = <<>>
        /\ UNCHANGED <<apiKey, history, health, error, served>>

\* onClick of Connect with a key: setHistory([]); setMetrics(null);
\* setConnected(true), and the effect of the render that follows
ConnectValid ==
    LET eff == PollingEffect(connected, TRUE, apiKey)
    IN  /\ CanIssue
        /\ history' = <<>>
        /\ metrics' = None
        /\ connected' = TRUE
        /\ timer' = eff.timer
        /\ pollKey' = eff.pollKey
        /\ lastSent' = eff.sent
        /\ inflight' = Outdated(inflight) (+) eff.sent
        /\ sessLog' = <<>>
        /\ UNCHANGED <<apiKey, health, error, served>>

\* onClick of Connect (Login view)
ConnectClick ==
    /\ ~connected
    /\ lastEvent' = Event("connect", NoOutcome)
    /\ IF Trim(apiKey) = <<>> THEN ConnectBlank ELSE ConnectValid

\* a Logout that omits setApiKey("")
LogoutKeepsKey ==
    LET eff == PollingEffect(connected, FALSE, apiKey)
    IN  /\ connected
        /\ metrics # None
        /\ connected' = FALSE
        /\ timer' = eff.timer
        /\ pollKey' = eff.pollKey
        /\ lastSent' = eff.sent
        /\ inflight' = inflight (+) eff.sent
        /\ lastEvent' = Event("logout", NoOutcome)
        /\ UNCHANGED <<apiKey, metrics, history, health, error, served, sessLog>>

\* onClick of Logout (Dashboard view): setConnected(false); setApiKey("")
LogoutClick ==
    LET eff == PollingEffect(connected, FALSE, apiKey)
    IN  /\ connected
        /\ metrics # None
        /\ connected' = FALSE
        /\ apiKey' = <<>>
        /\ timer' = eff.timer
        /\ pollKey' = eff.pollKey
        /\ lastSent' = eff.sent
        /\ inflight' = inflight (+) eff.sent
        /\ lastEvent' = Event("logout", NoOutcome)
        /\ UNCHANGED <<metrics, history, health, error, served, sessLog>>

\* the interval fires: fetchMetrics(); fetchHealth()
Tick ==
    /\ timer > 0
    /\ CanIssue
    /\ lastSent' = DualFetch(pollKey)
    /\ inflight' = inflight (+) DualFetch(pollKey)
    /\ lastEvent' = Event("tick", NoOutcome)
    /\ UNCHANGED <<apiKey, connected, metrics, history, health, error, timer,
                   pollKey, served, sessLog>>

\* a fetchMetrics whose failure paths also call setHealth({status: "down"})
MetricsResponseMarksDown(r, o, maxOk) ==
    LET st == FetchMetricsDone(AppState, o, MetricsBody(served + 1))
        eff == PollingEffect(connected, st.connected, apiKey)
    IN  /\ r \in BagToSet(inflight)
        /\ r.kind = "metrics"
        /\ IsSuccess(o) => served < maxOk
        /\ connected' = st.connected
        /\ metrics' = st.metrics
        /\ history' = st.history
        /\ error' = st.error
        /\ health' = IF IsSuccess(o) THEN health ELSE Some([status |-> "down"])
        /\ timer' = eff.timer
        /\ pollKey' = eff.pollKey
        /\ lastSent' = eff.sent
        /\ inflight' = (inflight (-) SetToBag({r})) (+) eff.sent
        /\ served' = IF IsSuccess(o) THEN served + 1 ELSE served
        /\ sessLog' = IF IsSuccess(o)
                      THEN Append(sessLog, Sample(MetricsBody(served + 1)))
                      ELSE sessLog
        /\ lastEvent' = Event("metrics", o)
        /\ UNCHANGED apiKey

\* the outcome o of metrics request r is processed
MetricsResponse(r, o, maxOk) ==
    LET st == FetchMetricsDone(AppState, o, MetricsBody(served + 1))
        eff == PollingEffect(connected, st.connected, apiKey)
    IN  /\ r \in BagToSet(inflight)
        /\ r.kind = "metrics"
        /\ IsSuccess(o) => served < maxOk
        /\ connected' = st.connected
        /\ metrics' = st.metrics
        /\ history' = st.history
        /\ error' = st.error
        /\ timer' = eff.timer
        /\ pollKey' = eff.pollKey
        /\ lastSent' = eff.sent
        /\ inflight' = (inflight (-) SetToBag({r})) (+) eff.sent
        /\ served' = IF IsSuccess(o) THEN served + 1 ELSE served
        /\ sessLog' = IF IsSuccess(o)
                      THEN Append(sessLog, Sample(MetricsBody(served + 1)))
                      ELSE sessLog
        /\ lastEvent' = Event("metrics", o)
        /\ UNCHANGED <<apiKey, health>>

\* the outcome o of health request r is processed
HealthResponse(r, o) ==
    /\ r \in BagToSet(inflight)
    /\ r.kind = "health"
    /\ health' = FetchHealthDone(o)
    /\ inflight' = inflight (-) SetToBag({r})
    /\ lastSent' = EmptyBag
    /\ lastEvent' = Event("health", o)
    /\ UNCHANGED <<apiKey, connected, metrics, history, error, timer, pollKey,
                   served, sessLog>>

\* one step of the component, with the inputs drawn from the given sets
Step(keys, metricsOutcomes, healthOutcomes, maxOk) ==
    \/ \E k \in keys : OnChange(k)
    \/ ConnectClick
    \/ LogoutClick
    \/ Tick
    \/ \E r \in BagToSet(inflight), o \in metricsOutcomes :
           MetricsResponse(r, o, maxOk)
    \/ \E r \in BagToSet(inflight), o \in healthOutcomes : HealthResponse(r, o)

Next == Step(KeyInputs, MetricsOutcomes, HealthOutcomes, MaxOk)

Spec == Init /\ [][Next]_vars

\* long sessions: one key, and one outcome of each path through the fetch code
DeepKeys == { <<" ">>, <<"a">> }
DeepMetricsOutcomes ==
    { Outcome(FALSE, FALSE, FALSE, "", ""),
      Outcome(TRUE, TRUE, TRUE, "", ""),
      Outcome(TRUE, FALSE, TRUE, "", "") }
DeepHealthOutcomes ==
    { Outcome(FALSE, FALSE, FALSE, "", ""),
      Outcome(TRUE, TRUE, TRUE, "", "healthy") }

NextDeep == Step(DeepKeys, DeepMetricsOutcomes, DeepHealthOutcomes, MaxOkDeep)

SpecDeep == Init /\ [][NextDeep]_vars

-----------------------------------------------------------------------------
(* Vocabulary of the properties *)

\* a key with nothing but white space in it
IsBlank(s) == \A i \in 1..Len(s) : IsWhitespace(s[i])

\* the kinds of outcome of a /metrics fetch
NonSuccess(o) == o.resolved /\ ~o.ok
ParsedNonSuccess(o) == o.resolved /\ ~o.ok /\ o.parses
TransportFailure(o) == ~o.resolved \/ (o.ok /\ ~o.parses)
Successful(o) == o.resolved /\ o.ok /\ o.parses

\* the message a parsed non-success body carries
FailureMessage(o) == IF o.detail = "" THEN "Invalid API key" ELSE o.detail

\* how many requests of a kind a bag holds
RECURSIVE CountOver(_, _)
CountOver(b, S) ==
    IF S = {} THEN 0
    ELSE LET r == CHOOSE x \in S : TRUE
         IN  CopiesIn(r, b) + CountOver(b, S \ {r})

CountKind(b, kind) == CountOver(b, {r \in BagToSet(b) : r.kind = kind})

-----------------------------------------------------------------------------
(* C1 *)

-----------------------------------------------------------------------------
(* C2 *)

\* C2 as stated: a non-success /metrics response processed while Connected
\* sets the error and leaves the session Connected, polling, with its snapshot.
C2_NonSuccessKeepsPolling ==
    [][ (connected /\ lastEvent'.op = "metrics" /\ NonSuccess(lastEvent'.outcome)) =>
            /\ error' # None
            /\ connected'
            /\ timer' = 1
            /\ metrics' = metrics
            /\ (metrics # None => View(connected', metrics') = "Dashboard")
      ]_vars

\* C2 amended: a non-success /metrics response whose body parses sets the error
\* to the failure message and makes the state Disconnected: the timer is
\* cancelled, nothing is issued, the snapshot and the history are kept and the
\* view is Login.
C2_NonSuccessDisconnects ==
    [][ (lastEvent'.op = "metrics" /\ ParsedNonSuccess(lastEvent'.outcome)) =>
            /\ error' = Some(FailureMessage(lastEvent'.outcome))
            /\ ~connected'
            /\ timer' = 0
            /\ lastSent' = EmptyBag
            /\ metrics' = metrics
            /\ history' = history
            /\ View(connected', metrics') = "Login"
      ]_vars

\* the second poll of a session fails with 401 {detail: "bad key"}
C2_Witness ==
    /\ lastEvent.op = "metrics"
    /\ lastEvent.was
    /\ ParsedNonSuccess(lastEvent.outcome)
    /\ lastEvent.outcome.detail = "bad key"
    /\ error = Some("bad key")
    /\ metrics # None
    /\ Len(history) = 1
    /\ ~connected

-----------------------------------------------------------------------------
(* C3 *)

\* C3 as stated: while Disconnected, processing the response of an earlier
\* fetch changes none of history, error, snapshot and connection state.
C3_LateResponseIsNoOp ==
    [][ (~connected /\ lastEvent'.op \in {"metrics", "health"}) =>
            UNCHANGED <<history, error, metrics, connected>>
      ]_vars

-----------------------------------------------------------------------------
(* C4 *)

\* C4: in every reachable state the history buffer holds at most 20 samples.
C4_HistoryAtMostCap == Len(history) <= 20

\* a full buffer that has already evicted samples
C4_Witness ==
    /\ Len(history) = 20
    /\ served > 20
    /\ history[1].requests > 1

-----------------------------------------------------------------------------
(* C5 *)

\* C5: the history buffer is the last min(n, 20) of the n samples processed
\* since the submit, in processing order; after 25 of them its first sample is
\* the 6th.
C5_HistoryIsTailOfSession ==
    LET n == Len(sessLog)
        len == IF n <= 20 THEN n ELSE 20
    IN  /\ Len(history) = len
        /\ \A i \in 1..len : history[i] = sessLog[n - len + i]
        /\ n = 25 => history[1] = sessLog[6]

\* 25 successful polls in one session
C5_Witness ==
    /\ Len(sessLog) = 25
    /\ Len(history) = 20
    /\ history[1].requests = 6
    /\ history[20].requests = 25

-----------------------------------------------------------------------------
(* C6 *)

\* C6: a submit of a blank key does not connect, sets an error, leaves history,
\* snapshot and key as they were, starts no timer and issues no request.
C6_BlankSubmitRejected ==
    [][ (lastEvent'.op = "connect" /\ IsBlank(apiKey)) =>
            /\ ~connected'
            /\ error' # None
            /\ history' = history
            /\ metrics' = metrics
            /\ apiKey' = apiKey
            /\ timer' = 0
            /\ lastSent' = EmptyBag
            /\ inflight' = inflight
      ]_vars

\* a white-space key submitted after a session left samples behind
C6_Witness ==
    /\ lastEvent.op = "connect"
    /\ apiKey = <<" ">>
    /\ error = Some("Please enter API key")
    /\ history # <<>>
    /\ ~connected

-----------------------------------------------------------------------------
(* C7 *)

\* C7: a failed metrics fetch (non-success or transport) leaves the history as
\* it was and sets the error; a successful one clears the error and appends
\* exactly one sample, after the samples it keeps.
C7_FailureKeepsHistorySuccessClearsError ==
    [][ /\ (lastEvent'.op = "metrics" /\
              (NonSuccess(lastEvent'.outcome) \/ TransportFailure(lastEvent'.outcome))) =>
                /\ history' = history
                /\ error' # None
        /\ (lastEvent'.op = "metrics" /\ Successful(lastEvent'.outcome)) =>
                LET kept == IF Len(history) < 20 THEN history ELSE Tail(history)
                IN  /\ error' = None
                    /\ Len(history') = Len(kept) + 1
                    /\ SubSeq(history', 1, Len(kept)) = kept
                    /\ history'[Len(history')].requests = served'
      ]_vars

\* a transport failure in a session that has one sample and a fetch in flight
C7_Witness ==
    /\ lastEvent.op = "metrics"
    /\ TransportFailure(lastEvent.outcome)
    /\ error = Some("Server not reachable")
    /\ Len(history) = 1
    /\ connected
    /\ CountKind(inflight, "metrics") > 0

-----------------------------------------------------------------------------
(* C8 *)

\* C8: requests are issued only while Connected: one metrics and one health
\* request on entering Connected and on every tick; once Disconnected the timer
\* is gone and nothing is issued until a valid submit.
C8_FetchesOnlyWhileConnected ==
    [][ /\ lastSent' # EmptyBag =>
            /\ connected'
            /\ lastEvent'.op \in {"connect", "tick"}
            /\ CountKind(lastSent', "metrics") = 1
            /\ CountKind(lastSent', "health") = 1
            /\ BagCardinality(lastSent') = 2
        /\ (~connected /\ connected') =>
            /\ lastEvent'.op = "connect"
            /\ ~IsBlank(apiKey)
            /\ lastSent' # EmptyBag
            /\ timer' = 1
        /\ lastEvent'.op = "tick" => (connected /\ lastSent' # EmptyBag)
        /\ ~connected' => (timer' = 0 /\ lastSent' = EmptyBag)
        /\ BagCardinality(inflight') <= BagCardinality(inflight) + BagCardinality(lastSent')
      ]_vars

\* a session ended by a failed poll, with the timer gone
C8_Witness ==
    /\ lastEvent.op = "metrics"
    /\ lastEvent.was
    /\ ~connected
    /\ timer = 0
    /\ served >= 2
    /\ inflight # EmptyBag

-----------------------------------------------------------------------------
(* C9 *)

\* C9: every /metrics request carries a non-blank key, the key of the input at
\* the submit that began the session, which stays the key while Connected.
C9_RequestsCarrySubmittedKey ==
    [][ /\ \A r \in BagToSet(lastSent') :
               r.kind = "metrics" => (~IsBlank(r.key) /\ r.key = apiKey')
        /\ \A r \in BagToSet(inflight') :
               r.kind = "metrics" => ~IsBlank(r.key)
        /\ connected' => apiKey' = apiKey
      ]_vars

\* a tick of a second session, under another key than the first session's
C9_Witness ==
    /\ lastEvent.op = "tick"
    /\ apiKey = <<" ", "b", " ">>
    /\ MetricsRequest(apiKey) \in BagToSet(lastSent)
    /\ \E r \in BagToSet(inflight) : r.kind = "metrics" /\ r.key = <<"a">> /\ ~r.cur

-----------------------------------------------------------------------------
(* C10 *)

\* C10: a health fetch that fails in transport or parsing sets the status to
\* "down"; processing a health outcome changes none of error, connection
\* state, snapshot and history.
C10_HealthFailureIsDownAndSilent ==
    [][ lastEvent'.op = "health" =>
            /\ (~lastEvent'.outcome.resolved \/ ~lastEvent'.outcome.parses) =>
                   health' = Some([status |-> "down"])
            /\ UNCHANGED <<error, connected, metrics, history>>
      ]_vars

\* a rejected health fetch during a session that shows a snapshot
C10_Witness ==
    /\ lastEvent.op = "health"
    /\ ~lastEvent.outcome.resolved
    /\ health = Some([status |-> "down"])
    /\ error = None
    /\ connected
    /\ metrics # None

-----------------------------------------------------------------------------
(* C11 *)

\* C11: the view is Login exactly when Disconnected, Loading exactly when
\* Connected without a snapshot and Dashboard exactly when Connected with one,
\* whatever history, health and error hold.
C11_ViewFollowsConnectedAndSnapshot ==
    LET v == View(connected, metrics)
    IN  /\ v \in {"Login", "Loading", "Dashboard"}
        /\ (v = "Login") <=> ~connected
        /\ (v = "Loading") <=> (connected /\ metrics = None)
        /\ (v = "Dashboard") <=> (connected /\ metrics # None)

\* Loading while an error and a health status are set
C11_Witness ==
    /\ View(connected, metrics) = "Loading"
    /\ connected
    /\ metrics = None
    /\ error # None
    /\ health # None

-----------------------------------------------------------------------------
(* C12 *)

\* C12 as stated: right after a valid submit the history is empty, the
\* snapshot absent, the state Connected, the view Loading, and health and error
\* are absent again.
C12_ValidSubmitStartsFresh ==
    [][ (lastEvent'.op = "connect" /\ ~IsBlank(apiKey)) =>
            /\ history' = <<>>
            /\ metrics' = None
            /\ connected'
            /\ View(connected', metrics') = "Loading"
            /\ health' = None
            /\ error' = None
      ]_vars

-----------------------------------------------------------------------------
(* C13 *)

\* C13 as stated: a transport failure of the metrics fetch sets the error to
\* "Server not reachable" and does to connection state, snapshot and history
\* what a non-success response does.
C13_TransportFailureLikeNonSuccess ==
    [][ (lastEvent'.op = "metrics" /\ TransportFailure(lastEvent'.outcome)) =>
            /\ error' = Some("Server not reachable")
            /\ \A n \in MetricsOutcomes :
                  NonSuccess(n) =>
                      LET st == FetchMetricsDone(AppState, n, MetricsBody(served + 1))
                      IN  /\ connected' = st.connected
                          /\ metrics' = st.metrics
                          /\ history' = st.history
      ]_vars

\* C13 amended: a metrics fetch that is rejected or whose body does not parse
\* sets the error to "Server not reachable" and leaves connection state, timer,
\* snapshot and history as they were; a parsed non-success response leaves
\* snapshot and history alike but, unlike it, disconnects.
C13_TransportFailureKeepsSession ==
    [][ /\ (lastEvent'.op = "metrics" /\
              (~lastEvent'.outcome.resolved \/ ~lastEvent'.outcome.parses)) =>
                /\ error' = Some("Server not reachable")
                /\ connected' = connected
                /\ timer' = timer
                /\ metrics' = metrics
                /\ history' = history
        /\ (lastEvent'.op = "metrics" /\ ParsedNonSuccess(lastEvent'.outcome)) =>
                /\ metrics' = metrics
                /\ history' = history
                /\ ~connected'
      ]_vars

\* a rejected metrics fetch in a session that shows a snapshot
C13_Witness ==
    /\ lastEvent.op = "metrics"
    /\ ~lastEvent.outcome.resolved
    /\ lastEvent.was
    /\ connected
    /\ timer = 1
    /\ error = Some("Server not reachable")
    /\ metrics # None

-----------------------------------------------------------------------------
(* C14 *)

\* C14 as stated: every non-success response sets the error to the detail of
\* its body, or to "Invalid API key" when it has none; "Server not reachable"
\* comes only from a rejected fetch or an unparseable success response.
C14_NonSuccessMessageFromDetail ==
    [][ lastEvent'.op = "metrics" =>
            /\ NonSuccess(lastEvent'.outcome) =>
                   error' = Some(FailureMessage(lastEvent'.outcome))
            /\ error' = Some("Server not reachable") =>
                   TransportFailure(lastEvent'.outcome)
      ]_vars

-----------------------------------------------------------------------------
(* C15 *)

\* C15: the two outcomes of a tick are processed independently.  Processing a
\* metrics outcome leaves the health status and the health fetches in flight
\* alone, and what it does is decided by the outcome and by connection state,
\* snapshot, history and error only; processing a health outcome leaves those
\* four, the timer and the metrics fetches in flight alone, and the status it
\* sets is decided by the outcome only.  So either order ends in the same state.
C15_OutcomesProcessedIndependently ==
    [][ /\ lastEvent'.op = "metrics" =>
            LET o == lastEvent'.outcome
            IN  /\ health' = health
                /\ CountKind(inflight', "health") = CountKind(inflight, "health")
                /\ CountKind(inflight', "metrics") = CountKind(inflight, "metrics") - 1
                /\ Successful(o) =>
                      /\ metrics' # None
                      /\ metrics'[1].total_requests = served'
                      /\ error' = None
                      /\ connected' = connected
                /\ ParsedNonSuccess(o) =>
                      /\ error' = Some(FailureMessage(o))
                      /\ ~connected'
                      /\ metrics' = metrics
                /\ (~o.resolved \/ ~o.parses) =>
                      /\ error' = Some("Server not reachable")
                      /\ connected' = connected
                      /\ metrics' = metrics
        /\ lastEvent'.op = "health" =>
            LET o == lastEvent'.outcome
            IN  /\ UNCHANGED <<connected, metrics, history, error, timer>>
                /\ CountKind(inflight', "metrics") = CountKind(inflight, "metrics")
                /\ CountKind(inflight', "health") = CountKind(inflight, "health") - 1
                /\ health' = IF o.resolved /\ o.parses
                             THEN Some([status |-> o.status])
                             ELSE Some([status |-> "down"])
      ]_vars

\* the first tick of a session: the metrics fetch succeeded and was processed
\* first, the health fetch was rejected and was processed second
C15_Witness ==
    /\ lastEvent.op = "health"
    /\ ~lastEvent.outcome.resolved
    /\ health = Some([status |-> "down"])
    /\ metrics # None
    /\ Len(history) = 1
    /\ error = None
    /\ connected
    /\ inflight = EmptyBag

-----------------------------------------------------------------------------
(* C16 *)

\* C16: in the Dashboard view the indicator shows Healthy exactly when a health
\* status is present and is "healthy"; it shows Down for any other status, for
\* the "down" of a failed fetch and while no health outcome has been processed.
C16_HealthyOnlyForHealthyStatus ==
    View(connected, metrics) = "Dashboard" =>
        /\ HealthIndicator(health) \in {"Healthy", "Down"}
        /\ (HealthIndicator(health) = "Healthy") <=>
               (health # None /\ health[1].status = "healthy")
        /\ health = None => HealthIndicator(health) = "Down"
        /\ health = Some([status |-> "down"]) => HealthIndicator(health) = "Down"

\* a dashboard shown before any health outcome was processed
C16_Witness ==
    /\ View(connected, metrics) = "Dashboard"
    /\ health = None
    /\ HealthIndicator(health) = "Down"

-----------------------------------------------------------------------------
(* C17 *)

\* C17 as stated: while Connected, processing the response of a metrics fetch
\* that an earlier session issued changes none of snapshot, history and
\* connection state.
C17_EarlierSessionResponseIgnored ==
    [][ ( /\ connected
          /\ lastEvent'.op = "metrics"
          /\ \E r \in BagToSet(inflight) :
                /\ r.kind = "metrics"
                /\ ~r.cur
                /\ CopiesIn(r, inflight') < CopiesIn(r, inflight) ) =>
            UNCHANGED <<metrics, history, connected>>
      ]_vars

-----------------------------------------------------------------------------
(* C18 *)

\* C18: there is never more than one poll timer, and there is one exactly
\* when the state is Connected.
C18_OneTimerExactlyWhileConnected ==
    /\ timer \in {0, 1}
    /\ (timer = 1) <=> connected

\* a tick of a session begun after an earlier one ended
C18_Witness ==
    /\ lastEvent.op = "tick"
    /\ connected
    /\ timer = 1
    /\ \E r \in BagToSet(inflight) : ~r.cur

-----------------------------------------------------------------------------
(* C19 *)

\* C19: the snapshot is present exactly when the history is not empty, the
\* newest sample then carries the snapshot's total_requests and
\* rate_limited_requests, and the Dashboard view has at least one chart point.
C19_SnapshotMatchesNewestSample ==
    /\ (metrics # None) <=> (history # <<>>)
    /\ metrics # None =>
          /\ history[Len(history)].requests = metrics[1].total_requests
          /\ history[Len(history)].rateLimited = metrics[1].rate_limited_requests
    /\ View(connected, metrics) = "Dashboard" => Len(history) >= 1

\* a dashboard after two successful polls
C19_Witness ==
    /\ View(connected, metrics) = "Dashboard"
    /\ Len(history) = 2
    /\ history[2].requests = metrics[1].total_requests
    /\ history[1].requests # history[2].requests

-----------------------------------------------------------------------------
(* C20 *)

\* C20: the Loading view is left only by processing a metrics response, to
\* Dashboard on a success and to Login on a parsed non-success; no user action
\* happens in it; a metrics fetch that is rejected or does not parse leaves the
\* view Loading with the error set and the timer running.
C20_LoadingLeftOnlyByMetricsResponse ==
    [][ View(connected, metrics) = "Loading" =>
            LET o == lastEvent'.outcome
                next == View(connected', metrics')
            IN  /\ lastEvent'.op \notin {"onChange", "connect", "logout"}
                /\ next # "Loading" =>
                      /\ lastEvent'.op = "metrics"
                      /\ \/ Successful(o) /\ next = "Dashboard"
                         \/ ParsedNonSuccess(o) /\ next = "Login"
                /\ (lastEvent'.op = "metrics" /\ Successful(o)) => next = "Dashboard"
                /\ (lastEvent'.op = "metrics" /\ ParsedNonSuccess(o)) => next = "Login"
                /\ (lastEvent'.op = "metrics" /\ (~o.resolved \/ ~o.parses)) =>
                      /\ next = "Loading"
                      /\ error' # None
                      /\ timer' = 1
      ]_vars

\* a session whose first metrics fetch was rejected: still Loading, error set
C20_Witness ==
    /\ View(connected, metrics) = "Loading"
    /\ lastEvent.op = "metrics"
    /\ ~lastEvent.outcome.resolved
    /\ lastEvent.was
    /\ error = Some("Server not reachable")
    /\ timer = 1
    /\ served = 0

====
